---- MODULE Spec2Model ----
(***************************************************************************)
(* The product catalogue of the fashion site: the Product table with its   *)
(* unique slug column (fashion/models.py) and the request handlers that    *)
(* read and write it (fashion/views.py).  Every database statement a       *)
(* handler issues is one atomic step, so concurrent requests interleave    *)
(* between statements exactly as they do under Django's autocommit mode.   *)
(* Text values (names, slugs, prices) are sequences of one-character       *)
(* strings, so that slugify, strip and float are computed on characters.   *)
(***************************************************************************)
EXTENDS Integers, Sequences, FiniteSets, TLC

\* ------------------------------------------------------------------ bounds

\* Requests served in the concurrent specification.
MaxRequests == 2
\* The sizes of the catalogue the concurrent specification starts from.
InitialSizes == {0, 1}
\* Requests served in the sequential specification.
MaxRequestsSeq == 4
\* Products present at the start of the listing specification.
MaxListed == 10

\* The concurrent request slots.
Procs == {"r1", "r2"}

\* ------------------------------------------------------- program constants

\* latest_products[:8] of home
HomeLimit == 8
\* related_products[:4] of product_detail
RelatedLimit == 4
\* recent_products[:4] of upload_dress
RecentLimit == 4

\* ------------------------------------------------------------- characters

Digits == <<"0", "1", "2", "3", "4", "5", "6", "7", "8", "9">>

\* str.lower() on the characters the inputs use.
Lower(c) ==
    CASE c = "R" -> "r"
      [] c = "G" -> "g"
      [] c = "O" -> "o"
      [] OTHER -> c

\* \w of the regular expressions: letters, digits and the underscore.
IsWordChar(c) ==
    c \in {"r", "e", "d", "g", "o", "w", "n", "a", "b", "R", "G", "_",
           "0", "1", "2", "3", "4", "5", "6", "7", "8", "9"}

\* \s of the regular expressions.
IsSpace(c) == c = " "

RECURSIVE LStrip(_, _)
LStrip(s, drop) ==
    IF s # <<>> /\ Head(s) \in drop THEN LStrip(Tail(s), drop) ELSE s

RECURSIVE RStrip(_, _)
RStrip(s, drop) ==
    IF s # <<>> /\ s[Len(s)] \in drop
    THEN RStrip(SubSeq(s, 1, Len(s) - 1), drop)
    ELSE s

\* str.strip(chars)
StripChars(s, drop) == RStrip(LStrip(s, drop), drop)

\* str.strip() of the form values
Strip(s) == StripChars(s, {" "})

\* re.sub(r"[-\s]+", "-", value): every run of hyphens and spaces becomes "-".
RECURSIVE CollapseRuns(_)
CollapseRuns(s) ==
    IF s = <<>> THEN <<>>
    ELSE IF Head(s) = "-" \/ IsSpace(Head(s))
         THEN <<"-">> \o CollapseRuns(LStrip(Tail(s), {"-", " "}))
         ELSE <<Head(s)>> \o CollapseRuns(Tail(s))

KeepSlugChar(c) == IsWordChar(c) \/ IsSpace(c) \/ c = "-"

\* django.utils.text.slugify on ASCII input: lower-case, drop what is not
\* a word character, a space or a hyphen, collapse runs, strip "-" and "_".
slugify(value) ==
    LET lowered == [i \in 1..Len(value) |-> Lower(value[i])]
        kept == SelectSeq(lowered, KeepSlugChar)
    IN  StripChars(CollapseRuns(kept), {"-", "_"})

\* str(counter) in the f-string of Product.save
RECURSIVE Str(_)
Str(n) ==
    IF n < 10 THEN <<Digits[n + 1]>>
    ELSE Str(n \div 10) \o <<Digits[(n % 10) + 1]>>

DigitValue(c) == CHOOSE d \in 0..9 : Digits[d + 1] = c

IsDigit(c) == \E d \in 1..10 : Digits[d] = c

RECURSIVE DigitsValue(_)
DigitsValue(s) ==
    IF s = <<>> THEN 0
    ELSE 10 * DigitsValue(SubSeq(s, 1, Len(s) - 1)) + DigitValue(s[Len(s)])

\* float(price) on the texts the inputs use: an optional sign and digits
\* parse; anything else raises ValueError (ok = FALSE).
ParseFloat(s) ==
    LET body == IF s # <<>> /\ Head(s) = "-" THEN Tail(s) ELSE s
        good == body # <<>> /\ \A i \in 1..Len(body) : IsDigit(body[i])
    IN  [ok |-> good,
         value |-> IF ~good THEN 0
                   ELSE IF Head(s) = "-" THEN 0 - DigitsValue(body)
                   ELSE DigitsValue(body)]

\* ------------------------------------------------------------------ inputs

NameRedGown == <<"R", "e", "d", " ", "G", "o", "w", "n">>
NameRedGownBang == <<"r", "e", "d", "-", "g", "o", "w", "n", "!">>
NameBang == <<"!", "!">>
NameBlank == <<" ">>

\* Names that pass validation; the first two derive the same base slug and
\* the third derives the empty slug.
GoodNames == {NameRedGown, NameRedGownBang, NameBang}

PriceGood == <<"1", "2", "0">>
PriceNegative == <<"-", "5">>
PriceWord == <<"a", "b">>
DescriptionGood == <<"x">>

SecureUrl == "https://host/r.jpg"

\* A submitted form: request.POST and request.FILES.
Form(name, price, description, dress_type, is_available, image) ==
    [name |-> name, price |-> price, description |-> description,
     dress_type |-> dress_type, is_available |-> is_available, image |-> image]

\* A request without a body.
NoForm == Form(<<>>, <<>>, <<>>, "", "", "")

GoodForm == Form(NameRedGown, PriceGood, DescriptionGood, "kente", "on", "img")

\* Forms whose fields pass validation; one of them has no image attached.
ValidForms ==
    {Form(n, PriceGood, DescriptionGood, "kente", a, "img") :
        n \in GoodNames, a \in {"on", ""}}
    \cup {Form(NameRedGownBang, PriceGood, DescriptionGood, "kente", "on", "")}

InvalidForms ==
    {[GoodForm EXCEPT !.name = NameBlank],
     [GoodForm EXCEPT !.price = <<>>],
     [GoodForm EXCEPT !.price = PriceNegative],
     [GoodForm EXCEPT !.price = PriceWord],
     [GoodForm EXCEPT !.description = <<" ">>],
     [GoodForm EXCEPT !.dress_type = ""]}

Forms == ValidForms \cup InvalidForms \cup {NoForm}

Methods == {"GET", "POST"}

\* What the call to the media host does when the gateway is configured.
Transports == {"ok", "raise"}

\* request.GET of the managed listing: filter and search.
ManageParams ==
    {[filter |-> "", search |-> <<>>],
     [filter |-> "available", search |-> <<>>],
     [filter |-> "hidden", search |-> <<"g", "O", "w", "n">>]}

\* ------------------------------------------------------------------- state

VARIABLES
    store,          \* the Product table: id -> row
    nextId,         \* the table's auto-increment counter
    clock,          \* the time source of created_at
    CLOUDINARY_URL, \* the gateway configuration read at import ("" = unset)
    served,         \* requests accepted so far
    pc,             \* per request slot: where its handler stands
    kind,           \* per request slot: the view that handles it
    request,        \* per request slot: method, URL arguments, query string
    product,        \* per request slot: the Product instance in memory
    slug,           \* per request slot: Product.save's local slug
    counter,        \* per request slot: Product.save's local counter
    errors,         \* per request slot: the errors list of the response
    outcome,        \* per request slot: the kind of response
    success,        \* per request slot: a success message or flag was set
    image_url,      \* per request slot: what upload_to_cloudinary returned
    context         \* per request slot: the template context's query results

vars == <<store, nextId, clock, CLOUDINARY_URL, served, pc, kind, request,
          product, slug, counter, errors, outcome, success, image_url, context>>

db == <<store, nextId, clock>>

NoProduct ==
    [id |-> 0, name |-> <<>>, slug |-> <<>>, category |-> "",
     dress_type |-> "", description |-> <<>>, price |-> 0, image_url |-> "",
     is_available |-> FALSE, created_at |-> 0]

NoRequest ==
    [method |-> "", product_id |-> 0, slug |-> <<>>, filter |-> "",
     search |-> <<>>, POST |-> NoForm]

NoContext ==
    [products |-> <<>>, all_count |-> 0, available_count |-> 0,
     hidden_count |-> 0]

\* Product(name=..., category='dresses', ...): slug blank, is_available as
\* given, no primary key yet.
NewProduct(name, dress_type, description, price, url, is_available) ==
    [id |-> 0, name |-> name, slug |-> <<>>, category |-> "dresses",
     dress_type |-> dress_type, description |-> description, price |-> price,
     image_url |-> url, is_available |-> is_available, created_at |-> 0]

Ids == DOMAIN store

\* ----------------------------------------------------------------- queries

\* Product.objects.filter(slug=slug).exclude(pk=pk).exists()
SlugTaken(rows, s, pk) ==
    \E i \in DOMAIN rows : rows[i].slug = s /\ i # pk

\* f"{base_slug}-{counter}"
Suffixed(base_slug, n) == base_slug \o <<"-">> \o Str(n)

\* The unique index on Product.slug with the check left out.
UniqueViolation_unchecked(rows, s, pk) == FALSE

\* unique=True on Product.slug: the statement is rejected when another row
\* holds the slug.
UniqueViolation(rows, s, pk) ==
    \E i \in DOMAIN rows : i # pk /\ rows[i].slug = s

Put(rows, pk, row) ==
    [i \in DOMAIN rows \cup {pk} |-> IF i = pk THEN row ELSE rows[i]]

Remove(rows, pk) == [i \in DOMAIN rows \ {pk} |-> rows[i]]

\* order_by('-created_at') over a set of ids
RECURSIVE OrderByCreatedDesc(_, _)
OrderByCreatedDesc(rows, S) ==
    IF S = {} THEN <<>>
    ELSE LET newest == CHOOSE i \in S :
                 \A j \in S : rows[j].created_at < rows[i].created_at
                              \/ (rows[j].created_at = rows[i].created_at
                                  /\ j <= i)
         IN  <<newest>> \o OrderByCreatedDesc(rows, S \ {newest})

\* queryset[:n]
Limit(seq, n) == SubSeq(seq, 1, IF Len(seq) < n THEN Len(seq) ELSE n)

\* name__icontains
IContains(hay, needle) ==
    LET h == [i \in 1..Len(hay) |-> Lower(hay[i])]
        n == [i \in 1..Len(needle) |-> Lower(needle[i])]
    IN  \E k \in 0..(Len(h) - Len(n)) :
            \A i \in 1..Len(n) : h[k + i] = n[i]

Dresses(rows) == {i \in DOMAIN rows : rows[i].category = "dresses"}

Available(rows, S) == {i \in S : rows[i].is_available}

Hidden(rows, S) == {i \in S : ~rows[i].is_available}

\* -------------------------------------------------------------- validation

\* A validation block that forgets the sign test on the price.
Validate_unsigned(name, price, description, dress_type) ==
    (IF name = <<>> THEN <<"Dress name is required.">> ELSE <<>>)
    \o (IF price = <<>> THEN <<"Price is required.">>
        ELSE IF ~ParseFloat(price).ok THEN <<"Invalid price format.">>
        ELSE <<>>)
    \o (IF description = <<>> THEN <<"Description is required.">> ELSE <<>>)
    \o (IF dress_type = "" THEN <<"Please select a dress type.">> ELSE <<>>)

\* The validation block shared by upload_dress and edit_dress: every
\* violated rule adds its message, none stops the others.
Validate(name, price, description, dress_type) ==
    (IF name = <<>> THEN <<"Dress name is required.">> ELSE <<>>)
    \o (IF price = <<>> THEN <<"Price is required.">>
        ELSE IF ~ParseFloat(price).ok THEN <<"Invalid price format.">>
        ELSE IF ParseFloat(price).value < 0
             THEN <<"Price must be a positive number.">>
        ELSE <<>>)
    \o (IF description = <<>> THEN <<"Description is required.">> ELSE <<>>)
    \o (IF dress_type = "" THEN <<"Please select a dress type.">> ELSE <<>>)

\* The image rule of upload_dress.
ValidateImage(image) ==
    IF image = "" THEN <<"Please upload an image.">> ELSE <<>>

UploadFailed == <<"Failed to upload image. Please try again.">>

\* upload_to_cloudinary: None ("") when the gateway is not configured or the
\* upload raises, the hosted URL otherwise.
upload_to_cloudinary(url, transport) ==
    IF url = "" THEN ""
    ELSE IF transport = "raise" THEN ""
    ELSE SecureUrl

\* ------------------------------------------------------------ step helpers

Begin(p, k, req) ==
    /\ pc[p] = "idle"
    /\ kind' = [kind EXCEPT ![p] = k]
    /\ request' = [request EXCEPT ![p] = req]

Respond(p, out, errs, succ) ==
    /\ pc' = [pc EXCEPT ![p] = "done"]
    /\ outcome' = [outcome EXCEPT ![p] = out]
    /\ errors' = [errors EXCEPT ![p] = errs]
    /\ success' = [success EXCEPT ![p] = succ]

Goto(p, label) ==
    /\ pc' = [pc EXCEPT ![p] = label]
    /\ UNCHANGED <<outcome, errors, success>>

\* Product.save up to its first query: a blank slug starts the search at the
\* base slug with counter 1; a slug already set goes straight to the write.
SaveBegin(p, prod) ==
    /\ product' = [product EXCEPT ![p] = prod]
    /\ IF prod.slug = <<>>
       THEN /\ slug' = [slug EXCEPT ![p] = slugify(prod.name)]
            /\ counter' = [counter EXCEPT ![p] = 1]
            /\ Goto(p, "slug_loop")
       ELSE /\ UNCHANGED <<slug, counter>>
            /\ Goto(p, "write")

\* The response after a successful save: a redirect with a success message
\* (upload, toggle) or the edit page with success set.
SavedOutcome(k) == IF k = "edit_dress" THEN "page" ELSE "redirect"

\* -------------------------------------------------------------- Product.save

\* A search that stops at the first suffixed candidate without testing it.
save_check_once(p) ==
    /\ pc[p] = "slug_loop"
    /\ IF SlugTaken(store, slug[p], product[p].id)
       THEN /\ product' = [product EXCEPT
                              ![p].slug = Suffixed(slugify(product[p].name),
                                                   counter[p])]
            /\ slug' = [slug EXCEPT
                           ![p] = Suffixed(slugify(product[p].name), counter[p])]
            /\ counter' = [counter EXCEPT ![p] = @ + 1]
            /\ Goto(p, "write")
       ELSE /\ product' = [product EXCEPT ![p].slug = slug[p]]
            /\ UNCHANGED <<slug, counter>>
            /\ Goto(p, "write")
    /\ UNCHANGED <<db, CLOUDINARY_URL, served, kind, request, image_url,
                   context>>

\* One evaluation of the while condition of Product.save: the exists() query
\* on the current candidate, then either the next candidate or the
\* assignment self.slug = slug.
save_check(p) ==
    /\ pc[p] = "slug_loop"
    /\ IF SlugTaken(store, slug[p], product[p].id)
       THEN /\ slug' = [slug EXCEPT
                           ![p] = Suffixed(slugify(product[p].name), counter[p])]
            /\ counter' = [counter EXCEPT ![p] = @ + 1]
            /\ UNCHANGED product
            /\ Goto(p, "slug_loop")
       ELSE /\ product' = [product EXCEPT ![p].slug = slug[p]]
            /\ UNCHANGED <<slug, counter>>
            /\ Goto(p, "write")
    /\ UNCHANGED <<db, CLOUDINARY_URL, served, kind, request, image_url,
                   context>>

\* super().save(): UPDATE of every column when the row exists, INSERT
\* otherwise (a new key for a new instance, created_at from the clock); the
\* unique index rejects the statement with IntegrityError, which no handler
\* catches.
save_write(p) ==
    /\ pc[p] = "write"
    /\ LET prod == product[p]
           update == prod.id \in Ids
           pk == IF prod.id # 0 THEN prod.id ELSE nextId
           row == [prod EXCEPT !.id = pk,
                               !.created_at = IF update THEN @ ELSE clock]
       IN  IF UniqueViolation(store, row.slug, pk)
           THEN /\ Respond(p, "server_error", <<>>, FALSE)
                /\ UNCHANGED <<db, product>>
           ELSE /\ store' = Put(store, pk, row)
                /\ nextId' = IF prod.id = 0 THEN nextId + 1 ELSE nextId
                /\ clock' = IF update THEN clock ELSE clock + 1
                /\ product' = [product EXCEPT ![p] = row]
                /\ Respond(p, SavedOutcome(kind[p]), <<>>, TRUE)
    /\ UNCHANGED <<CLOUDINARY_URL, served, kind, request, slug, counter,
                   image_url, context>>

\* -------------------------------------------------------------------- views

\* A lookup that lets a missing row pass as an ordinary redirect.
MissingResponse_silent == "redirect"

\* get_object_or_404 on a missing row: Http404.
MissingResponse == "not_found"

\* upload_dress: GET renders the form; POST validates, uploads the image and
\* saves a new Product, or renders the form again with the errors.
upload_dress(p) ==
    \E m \in Methods, form \in Forms, transport \in Transports :
        /\ m = "GET" => form = NoForm /\ transport = "ok"
        /\ Begin(p, "upload_dress", [NoRequest EXCEPT !.method = m, !.POST = form])
        /\ LET name == Strip(form.name)
               price == Strip(form.price)
               description == Strip(form.description)
               dress_type == form.dress_type
               errs == Validate(name, price, description, dress_type)
                       \o ValidateImage(form.image)
               url == upload_to_cloudinary(CLOUDINARY_URL, transport)
               recent == Limit(OrderByCreatedDesc(store, Dresses(store)),
                               RecentLimit)
               page == context' = [context EXCEPT ![p].products = recent]
           IN  IF m # "POST"
               THEN /\ Respond(p, "page", <<>>, FALSE)
                    /\ page
                    /\ UNCHANGED <<product, slug, counter, image_url>>
               ELSE IF errs # <<>>
               THEN /\ transport = "ok"
                    /\ Respond(p, "page", errs, FALSE)
                    /\ page
                    /\ UNCHANGED <<product, slug, counter, image_url>>
               ELSE IF url = ""
               THEN /\ Respond(p, "page", UploadFailed, FALSE)
                    /\ page
                    /\ image_url' = [image_url EXCEPT ![p] = url]
                    /\ UNCHANGED <<product, slug, counter>>
               ELSE /\ SaveBegin(p, NewProduct(name, dress_type, description,
                                               ParseFloat(price).value, url,
                                               form.is_available = "on"))
                    /\ image_url' = [image_url EXCEPT ![p] = url]
                    /\ UNCHANGED context
        /\ UNCHANGED <<db, CLOUDINARY_URL>>

\* edit_dress: the dress is looked up first (404 when absent); POST
\* validates, copies the form into the instance, uploads a new image when one
\* is attached, and saves.
edit_dress(p) ==
    \E id \in 1..nextId, m \in Methods, form \in Forms, transport \in Transports :
        /\ m = "GET" => form = NoForm
        /\ form.image = "" => transport = "ok"
        /\ Begin(p, "edit_dress",
                 [NoRequest EXCEPT !.method = m, !.product_id = id,
                                   !.POST = form])
        /\ LET name == Strip(form.name)
               price == Strip(form.price)
               description == Strip(form.description)
               dress_type == form.dress_type
               errs == Validate(name, price, description, dress_type)
               url == upload_to_cloudinary(CLOUDINARY_URL, transport)
               found == id \in Ids /\ store[id].category = "dresses"
               edited == [store[id] EXCEPT
                             !.name = name,
                             !.dress_type = dress_type,
                             !.description = description,
                             !.price = ParseFloat(price).value,
                             !.is_available = (form.is_available = "on"),
                             !.image_url = IF form.image # "" /\ url # ""
                                           THEN url ELSE @]
           IN  IF ~found
               THEN /\ transport = "ok"
                    /\ Respond(p, MissingResponse, <<>>, FALSE)
                    /\ UNCHANGED <<product, slug, counter, image_url>>
               ELSE IF m # "POST"
               THEN /\ Respond(p, "page", <<>>, FALSE)
                    /\ product' = [product EXCEPT ![p] = store[id]]
                    /\ UNCHANGED <<slug, counter, image_url>>
               ELSE IF errs # <<>>
               THEN /\ transport = "ok"
                    /\ Respond(p, "page", errs, FALSE)
                    /\ product' = [product EXCEPT ![p] = store[id]]
                    /\ UNCHANGED <<slug, counter, image_url>>
               ELSE /\ SaveBegin(p, edited)
                    /\ image_url' = [image_url EXCEPT
                                        ![p] = IF form.image # "" THEN url ELSE @]
        /\ UNCHANGED <<db, CLOUDINARY_URL, context>>

\* toggle_dress: POST looks the product up (404 when absent), flips
\* is_available on the instance and saves it; any other method redirects.
toggle_dress(p) ==
    \E id \in 1..nextId, m \in Methods :
        /\ Begin(p, "toggle_dress",
                 [NoRequest EXCEPT !.method = m, !.product_id = id])
        /\ IF m # "POST"
           THEN /\ Respond(p, "redirect", <<>>, FALSE)
                /\ UNCHANGED <<product, slug, counter>>
           ELSE IF id \notin Ids
           THEN /\ Respond(p, MissingResponse, <<>>, FALSE)
                /\ UNCHANGED <<product, slug, counter>>
           ELSE SaveBegin(p, [store[id] EXCEPT !.is_available = ~@])
        /\ UNCHANGED <<db, CLOUDINARY_URL, image_url, context>>

\* delete_dress: POST looks the product up (404 when absent) and then
\* deletes it; any other method redirects.
delete_dress(p) ==
    \E id \in 1..nextId, m \in Methods :
        /\ Begin(p, "delete_dress",
                 [NoRequest EXCEPT !.method = m, !.product_id = id])
        /\ IF m # "POST"
           THEN /\ Respond(p, "redirect", <<>>, FALSE)
                /\ UNCHANGED product
           ELSE IF id \notin Ids
           THEN /\ Respond(p, MissingResponse, <<>>, FALSE)
                /\ UNCHANGED product
           ELSE /\ product' = [product EXCEPT ![p] = store[id]]
                /\ Goto(p, "delete")
        /\ UNCHANGED <<db, CLOUDINARY_URL, slug, counter, image_url, context>>

\* product.delete(): DELETE of the row with the instance's key.
delete(p) ==
    /\ pc[p] = "delete"
    /\ store' = Remove(store, product[p].id)
    /\ Respond(p, "redirect", <<>>, TRUE)
    /\ UNCHANGED <<nextId, clock, CLOUDINARY_URL, served, kind, request,
                   product, slug, counter, image_url, context>>

\* The managed listing: the dresses, narrowed by the status filter and the
\* search text, newest first.
ManagedListing(rows, filter, search) ==
    LET all == Dresses(rows)
        byStatus == IF filter = "available" THEN Available(rows, all)
                    ELSE IF filter = "hidden" THEN Hidden(rows, all)
                    ELSE all
        bySearch == IF Strip(search) # <<>>
                    THEN {i \in byStatus : IContains(rows[i].name, Strip(search))}
                    ELSE byStatus
    IN  OrderByCreatedDesc(rows, bySearch)

\* manage_dresses up to its first query: all_dresses.count().
manage_dresses(p) ==
    \E params \in ManageParams :
        /\ Begin(p, "manage_dresses",
                 [NoRequest EXCEPT !.method = "GET", !.filter = params.filter,
                                   !.search = params.search])
        /\ context' = [context EXCEPT
                          ![p].all_count = Cardinality(Dresses(store))]
        /\ Goto(p, "count_available")
        /\ UNCHANGED <<db, CLOUDINARY_URL, product, slug, counter, image_url>>

\* all_dresses.filter(is_available=True).count()
count_available(p) ==
    /\ pc[p] = "count_available"
    /\ context' = [context EXCEPT
                      ![p].available_count =
                          Cardinality(Available(store, Dresses(store)))]
    /\ Goto(p, "count_hidden")
    /\ UNCHANGED <<db, CLOUDINARY_URL, served, kind, request, product, slug,
                   counter, image_url>>

\* all_dresses.filter(is_available=False).count()
count_hidden(p) ==
    /\ pc[p] = "count_hidden"
    /\ context' = [context EXCEPT
                      ![p].hidden_count =
                          Cardinality(Hidden(store, Dresses(store)))]
    /\ Goto(p, "render")
    /\ UNCHANGED <<db, CLOUDINARY_URL, served, kind, request, product, slug,
                   counter, image_url>>

\* render(): the template evaluates the lazy products queryset.
render(p) ==
    /\ pc[p] = "render"
    /\ context' = [context EXCEPT
                      ![p].products = ManagedListing(store, request[p].filter,
                                                     request[p].search)]
    /\ Respond(p, "page", <<>>, FALSE)
    /\ UNCHANGED <<db, CLOUDINARY_URL, served, kind, request, product, slug,
                   counter, image_url>>

\* A home feed that forgets the availability filter.
HomeFeed_unfiltered(rows) ==
    Limit(OrderByCreatedDesc(rows, DOMAIN rows), HomeLimit)

\* Product.objects.filter(is_available=True).order_by('-created_at')[:8]
HomeFeed(rows) ==
    Limit(OrderByCreatedDesc(rows, Available(rows, DOMAIN rows)), HomeLimit)

\* The related products of row `of`: same category, available, the row itself
\* excluded, newest first, at most four.
Related(rows, of) ==
    Limit(OrderByCreatedDesc(rows,
              {i \in Available(rows, DOMAIN rows) :
                  rows[i].category = of.category /\ i # of.id}),
          RelatedLimit)

\* home
home(p) ==
    /\ Begin(p, "home", [NoRequest EXCEPT !.method = "GET"])
    /\ context' = [context EXCEPT ![p].products = HomeFeed(store)]
    /\ Respond(p, "page", <<>>, FALSE)
    /\ UNCHANGED <<db, CLOUDINARY_URL, product, slug, counter, image_url>>

\* The slugs a detail request may name: every slug in use and one that is not.
SlugChoices == {store[i].slug : i \in Ids} \cup {<<"n", "o">>}

\* product_detail up to the lookup: get_object_or_404(Product, slug=slug).
product_detail(p) ==
    \E s \in SlugChoices :
        /\ Begin(p, "product_detail",
                 [NoRequest EXCEPT !.method = "GET", !.slug = s])
        /\ IF \E i \in Ids : store[i].slug = s
           THEN /\ product' = [product EXCEPT
                                  ![p] = store[CHOOSE i \in Ids :
                                                   store[i].slug = s]]
                /\ Goto(p, "related")
           ELSE /\ Respond(p, MissingResponse, <<>>, FALSE)
                /\ UNCHANGED product
        /\ UNCHANGED <<db, CLOUDINARY_URL, slug, counter, image_url, context>>

\* product_detail's render: the related_products queryset is evaluated.
related(p) ==
    /\ pc[p] = "related"
    /\ context' = [context EXCEPT ![p].products = Related(store, product[p])]
    /\ Respond(p, "page", <<>>, FALSE)
    /\ UNCHANGED <<db, CLOUDINARY_URL, served, kind, request, product, slug,
                   counter, image_url>>

\* The response leaves the server and the slot is free again.
Finish(p) ==
    /\ pc[p] = "done"
    /\ pc' = [pc EXCEPT ![p] = "idle"]
    /\ kind' = [kind EXCEPT ![p] = ""]
    /\ request' = [request EXCEPT ![p] = NoRequest]
    /\ product' = [product EXCEPT ![p] = NoProduct]
    /\ slug' = [slug EXCEPT ![p] = <<>>]
    /\ counter' = [counter EXCEPT ![p] = 0]
    /\ errors' = [errors EXCEPT ![p] = <<>>]
    /\ outcome' = [outcome EXCEPT ![p] = ""]
    /\ success' = [success EXCEPT ![p] = FALSE]
    /\ image_url' = [image_url EXCEPT ![p] = "unset"]
    /\ context' = [context EXCEPT ![p] = NoContext]
    /\ UNCHANGED <<db, CLOUDINARY_URL, served>>

\* ---------------------------------------------------------- specifications

IdleSlots ==
    /\ pc = [p \in Procs |-> "idle"]
    /\ kind = [p \in Procs |-> ""]
    /\ request = [p \in Procs |-> NoRequest]
    /\ product = [p \in Procs |-> NoProduct]
    /\ slug = [p \in Procs |-> <<>>]
    /\ counter = [p \in Procs |-> 0]
    /\ errors = [p \in Procs |-> <<>>]
    /\ outcome = [p \in Procs |-> ""]
    /\ success = [p \in Procs |-> FALSE]
    /\ image_url = [p \in Procs |-> "unset"]
    /\ context = [p \in Procs |-> NoContext]

\* Product.save's search run to its end against one table state: the slug a
\* save assigns when no other request writes in between.
RECURSIVE SearchSlug(_, _, _, _, _)
SearchSlug(rows, base_slug, s, n, pk) ==
    IF SlugTaken(rows, s, pk)
    THEN SearchSlug(rows, base_slug, Suffixed(base_slug, n), n + 1, pk)
    ELSE s

\* The names of the products of a starting catalogue, in creation order.
CatalogueNames == <<NameRedGown, NameRedGownBang, NameBang>>

\* The table after n uploads, one after the other, of the catalogue names in
\* turn; the products whose ids are in `tops` were filed under tops in the
\* admin site instead.
RECURSIVE Populated(_, _)
Populated(n, tops) ==
    IF n = 0 THEN <<>>
    ELSE LET rows == Populated(n - 1, tops)
             name == CatalogueNames[((n - 1) % Len(CatalogueNames)) + 1]
             new == NewProduct(name, "kente", DescriptionGood,
                               ParseFloat(PriceGood).value, SecureUrl, TRUE)
         IN  Put(rows, n,
                 [new EXCEPT !.id = n,
                             !.slug = SearchSlug(rows, slugify(name),
                                                 slugify(name), 1, 0),
                             !.category = IF n \in tops THEN "tops"
                                          ELSE "dresses",
                             !.created_at = n])

\* An empty or a one-product catalogue; the gateway configured or not.
Init ==
    /\ \E n \in InitialSizes :
        /\ store = Populated(n, {})
        /\ nextId = n + 1
        /\ clock = n + 1
    /\ CLOUDINARY_URL \in {"", "cloudinary://key@cloud"}
    /\ served = 0
    /\ IdleSlots

\* An empty catalogue with the gateway configured.
InitSeq ==
    /\ store = <<>>
    /\ nextId = 1
    /\ clock = 1
    /\ CLOUDINARY_URL = "cloudinary://key@cloud"
    /\ served = 0
    /\ IdleSlots

\* The layouts of the listing catalogue: which products are tops.
TopsLayouts == {{}, {1}, {1, 2}}

\* A catalogue of MaxListed products, all available.
InitList ==
    /\ \E tops \in TopsLayouts : store = Populated(MaxListed, tops)
    /\ nextId = MaxListed + 1
    /\ clock = MaxListed + 1
    /\ CLOUDINARY_URL = "cloudinary://key@cloud"
    /\ served = 0
    /\ IdleSlots

Accept(cap) == served < cap /\ served' = served + 1

\* Concurrent requests: any slot takes a request or runs its next statement.
Next ==
    \E p \in Procs :
        \/ Accept(MaxRequests) /\ upload_dress(p)
        \/ Accept(MaxRequests) /\ edit_dress(p)
        \/ Accept(MaxRequests) /\ toggle_dress(p)
        \/ Accept(MaxRequests) /\ delete_dress(p)
        \/ Accept(MaxRequests) /\ manage_dresses(p)
        \/ save_check(p)
        \/ save_write(p)
        \/ delete(p)
        \/ count_available(p)
        \/ count_hidden(p)
        \/ render(p)
        \/ Finish(p)

Spec == Init /\ [][Next]_vars

\* One request at a time: slot r1 takes a request and runs it to its end.
NextSeq ==
    \/ Accept(MaxRequestsSeq) /\ upload_dress("r1")
    \/ Accept(MaxRequestsSeq) /\ edit_dress("r1")
    \/ Accept(MaxRequestsSeq) /\ toggle_dress("r1")
    \/ Accept(MaxRequestsSeq) /\ delete_dress("r1")
    \/ Accept(MaxRequestsSeq) /\ manage_dresses("r1")
    \/ save_check("r1")
    \/ save_write("r1")
    \/ delete("r1")
    \/ count_available("r1")
    \/ count_hidden("r1")
    \/ render("r1")
    \/ Finish("r1")

SpecSeq == InitSeq /\ [][NextSeq]_vars

\* The public listings over a full catalogue, with availability toggled in
\* between.
NextList ==
    \/ UNCHANGED served /\ home("r1")
    \/ UNCHANGED served /\ product_detail("r1")
    \/ UNCHANGED served /\ toggle_dress("r1")
    \/ related("r1")
    \/ save_check("r1")
    \/ save_write("r1")
    \/ Finish("r1")

SpecList == InitList /\ [][NextList]_vars

\* ------------------------------------------------------------------ claims

SameBase(i, j) == slugify(store[i].name) = slugify(store[j].name)

\* C1: no two persisted products have the same slug, whatever requests ran
\* and however they interleaved; products whose names derive the same base
\* slug in particular hold distinct slugs.
C1_SlugsUnique ==
    \A i \in Ids : \A j \in Ids : i # j => store[i].slug # store[j].slug

\* Two products of the same base slug are stored, and a concurrent upload
\* that chose a slug already taken was turned away by the unique index.
C1_Witness ==
    /\ \E i \in Ids : \E j \in Ids : i # j /\ SameBase(i, j)
    /\ \E p \in Procs : kind[p] = "upload_dress" /\ outcome[p] = "server_error"

\* C2 (as claimed): every successful edit leaves the product's slug as it
\* was before the edit's save.
C2_EditKeepsSlug ==
    [][\A p \in Procs :
        (/\ kind[p] = "edit_dress" /\ pc[p] = "write"
         /\ pc'[p] = "done" /\ success'[p]
         /\ product[p].id \in Ids)
        => store'[product[p].id].slug = store[product[p].id].slug]_vars

\* The products other than pk that hold slug s.
HeldByOther(rows, s, pk) == \E i \in DOMAIN rows \ {pk} : rows[i].slug = s

\* The base slug when free, else the base with the least free suffix.
LowestFree(rows, base_slug, pk) ==
    IF ~HeldByOther(rows, base_slug, pk) THEN base_slug
    ELSE Suffixed(base_slug,
             CHOOSE k \in 1..(Cardinality(DOMAIN rows) + 1) :
                 /\ ~HeldByOther(rows, Suffixed(base_slug, k), pk)
                 /\ \A m \in 1..(k - 1) :
                        HeldByOther(rows, Suffixed(base_slug, m), pk))

\* C3: a save of a product with an empty slug assigns the base slug when no
\* other product holds it and otherwise the base with the smallest free
\* suffix k >= 1, after testing at most (number of products + 1) candidates;
\* the slug it assigned is the slug stored.
C3_LowestFreeSuffix ==
    \A p \in Procs :
        /\ (pc[p] = "write" /\ counter[p] > 0) =>
              /\ product[p].slug
                    = LowestFree(store, slugify(product[p].name), product[p].id)
              /\ counter[p] <= Cardinality(Ids) + 1
        /\ (pc[p] = "done" /\ counter[p] > 0 /\ success[p]) =>
              /\ product[p].id \in Ids
              /\ store[product[p].id].slug
                    = LowestFree(store, slugify(product[p].name), product[p].id)

\* The second "Red Gown" is about to be written as red-gown-1, after two
\* candidates.
C3_Witness ==
    /\ pc["r1"] = "write"
    /\ counter["r1"] = 2
    /\ product["r1"].name = NameRedGown
    /\ product["r1"].slug = <<"r", "e", "d", "-", "g", "o", "w", "n", "-", "1">>

\* C4 (as claimed): an upload that reached its save ends with its product
\* inserted and a success redirect, never with the storage error of the
\* unique index.
C4_ConflictIsRetried ==
    \A p \in Procs :
        (kind[p] = "upload_dress" /\ pc[p] = "done" /\ product[p] # NoProduct)
        => (outcome[p] = "redirect" /\ success[p] /\ product[p].id # 0)

\* The rules a submitted form can violate: the image rule on upload only.
Violates(k, form) ==
    \/ Strip(form.name) = <<>>
    \/ Strip(form.price) = <<>>
    \/ ~ParseFloat(Strip(form.price)).ok
    \/ ParseFloat(Strip(form.price)).value < 0
    \/ Strip(form.description) = <<>>
    \/ form.dress_type = ""
    \/ (k = "upload_dress" /\ form.image = "")

\* C5: an upload or an edit (of an existing dress) whose form violates a
\* validation rule ends at once with a non-empty error list and no success,
\* and the table is as it was; handing the response over changes nothing.
C5_RejectedLeavesStore ==
    [][\A p \in Procs :
        /\ (/\ pc[p] = "idle" /\ pc'[p] # "idle"
            /\ kind'[p] \in {"upload_dress", "edit_dress"}
            /\ request'[p].method = "POST"
            /\ Violates(kind'[p], request'[p].POST)
            /\ kind'[p] = "edit_dress" =>
                  /\ request'[p].product_id \in Ids
                  /\ store[request'[p].product_id].category = "dresses")
           => /\ pc'[p] = "done"
              /\ outcome'[p] = "page"
              /\ errors'[p] # <<>>
              /\ ~success'[p]
              /\ store' = store
        /\ (pc[p] = "done" /\ pc'[p] = "idle") => store' = store]_vars

\* An upload with price "-5" was rejected with the price message while an
\* edit with an empty description was rejected, one product in the table.
C5_Witness ==
    \E p \in Procs : \E q \in Procs :
        /\ pc[p] = "done" /\ kind[p] = "upload_dress"
        /\ request[p].POST.price = PriceNegative
        /\ errors[p] = <<"Price must be a positive number.">>
        /\ pc[q] = "done" /\ kind[q] = "edit_dress"
        /\ request[q].POST.description = <<" ">>
        /\ errors[q] = <<"Description is required.">>
        /\ Ids = {1}

\* C6 (as claimed): a request whose upload to the media host failed ends
\* with the upload error in its error list and is not reported as a success.
C6_UploadFailureRejects ==
    \A p \in Procs :
        (image_url[p] = "" /\ pc[p] = "done")
        => (outcome[p] = "page" /\ ~success[p] /\ errors[p] = UploadFailed)

\* C7 (as claimed): a toggle or delete request naming an id that is not in
\* the table ends in NotFound and leaves the table as it was.
C7_MissingIdNotFound ==
    [][\A p \in Procs :
        (/\ pc[p] = "idle" /\ pc'[p] # "idle"
         /\ kind'[p] \in {"toggle_dress", "delete_dress"}
         /\ request'[p].product_id \notin Ids)
        => (pc'[p] = "done" /\ outcome'[p] = "not_found" /\ store' = store)]_vars

\* C7 (amended): a POST toggle or delete request naming an id that is not in
\* the table ends in NotFound, with no success message, and leaves the table
\* as it was.
C7_MissingIdNotFoundOnPost ==
    [][\A p \in Procs :
        (/\ pc[p] = "idle" /\ pc'[p] # "idle"
         /\ kind'[p] \in {"toggle_dress", "delete_dress"}
         /\ request'[p].method = "POST"
         /\ request'[p].product_id \notin Ids)
        => (/\ pc'[p] = "done" /\ outcome'[p] = "not_found"
            /\ ~success'[p] /\ store' = store)]_vars

\* A POST toggle and a POST delete of ids not in the table both ended in
\* NotFound.
C7_Witness ==
    \E p \in Procs : \E q \in Procs :
        /\ pc[p] = "done" /\ kind[p] = "toggle_dress"
        /\ request[p].method = "POST" /\ request[p].product_id \notin Ids
        /\ outcome[p] = "not_found"
        /\ pc[q] = "done" /\ kind[q] = "delete_dress"
        /\ request[q].method = "POST" /\ request[q].product_id \notin Ids
        /\ outcome[q] = "not_found"

Range(seq) == {seq[i] : i \in 1..Len(seq)}

NoRepeats(seq) == Cardinality(Range(seq)) = Len(seq)

\* C8: the home feed holds at most 8 products, all available, and they are
\* the most recently created available ones; the related products of a
\* detail page are at most 4, all available, all of the page's product's
\* category, and never the product itself.
C8_PublicListings ==
    \A p \in Procs :
        LET shown == context[p].products IN
        /\ (pc[p] = "done" /\ kind[p] = "home") =>
              /\ Len(shown) <= 8
              /\ NoRepeats(shown)
              /\ Range(shown) \subseteq Available(store, Ids)
              /\ \A j \in Available(store, Ids) \ Range(shown) :
                    /\ Len(shown) = 8
                    /\ \A i \in Range(shown) :
                          store[j].created_at < store[i].created_at
        /\ (pc[p] = "done" /\ kind[p] = "product_detail"
            /\ outcome[p] = "page") =>
              /\ Len(shown) <= 4
              /\ NoRepeats(shown)
              /\ Range(shown) \subseteq Available(store, Ids)
              /\ product[p].id \notin Range(shown)
              /\ \A i \in Range(shown) :
                    store[i].category = product[p].category

\* A home feed of 8 entries while 9 products are available and one is hidden.
C8_Witness ==
    /\ pc["r1"] = "done" /\ kind["r1"] = "home"
    /\ Len(context["r1"].products) = 8
    /\ Cardinality(Available(store, Ids)) = 9
    /\ Cardinality(Hidden(store, Ids)) = 1

\* C9 (as claimed): the counts of a managed-listing response satisfy
\* available_count + hidden_count = all_count.
C9_CountsAddUp ==
    \A p \in Procs :
        (kind[p] = "manage_dresses" /\ pc[p] \in {"render", "done"})
        => context[p].available_count + context[p].hidden_count
              = context[p].all_count

\* C10 (as claimed): requests on one product behave as if run one after the
\* other, so every committed toggle flips the flag the table held.
C10_ToggleFlipsStored ==
    [][\A p \in Procs :
        (/\ kind[p] = "toggle_dress" /\ pc[p] = "write"
         /\ pc'[p] = "done" /\ success'[p]
         /\ product[p].id \in Ids)
        => store'[product[p].id].is_available
              = ~store[product[p].id].is_available]_vars

====
